---------------------------- MODULE Spec2Model ----------------------------
(***************************************************************************)
(* A model of core/optimizer.py: the optimizer family (SGD, Adam, RMSProp, *)
(* Momentum), whose base class flattens the gradients of a network, asks   *)
(* the variant for a flat update and splits it back over the parameters,   *)
(* and the learning-rate scheduler family (StepLR, MultiStepLR,            *)
(* ExponentialLR, LinearLR) that rewrites the optimizer's lr field.        *)
(*                                                                         *)
(* Numbers.  Python floats are modelled as exact rationals <<n, d>> in     *)
(* lowest terms with d > 0; Python ints are the rationals with d = 1.      *)
(* Square roots and fractional powers are taken exactly, and the inputs of *)
(* the model are drawn so that every root the code takes is rational.      *)
(* Tensors are records [shape, data] with data in row-major (ravel) order. *)
(***************************************************************************)
EXTENDS Integers, Sequences, FiniteSets, TLC

VARIABLES
    params,      \* the network's parameter tensors, in get_params_and_grads() order
    grads,       \* the network's gradient tensors, paired with params by position
    optKind,     \* class of the optimizer instance: "none" before construction
    lr,          \* Optimizer.lr
    acc,         \* Momentum._acc
    adam_t,      \* Adam._t
    adam_m,      \* Adam._m
    adam_v,      \* Adam._v
    rms_ms,      \* RMSProp._ms
    rms_mom,     \* RMSProp._mom
    hyper,       \* the optimizer's constructor arguments other than lr
    scheds,      \* the scheduler instances, by slot
    lastOp,      \* the operation that ran last
    err,         \* the exception the last operation raised, "none" if it returned
    ret,         \* the value the last operation returned
    hist         \* history of the last operation: what it read and computed

vars == <<params, grads, optKind, lr, acc, adam_t, adam_m, adam_v, rms_ms,
          rms_mom, hyper, scheds, lastOp, err, ret, hist>>

netVars == <<params, grads>>
optStateVars == <<acc, adam_t, adam_m, adam_v, rms_ms, rms_mom>>

-----------------------------------------------------------------------------
(* Bounds of the model *)

MaxParams == 2       \* parameters of a network
MaxOptSteps == 2     \* Optimizer.step calls in a run
MaxT == 6            \* step() calls on one scheduler
MaxWrites == 1       \* external writes to optimizer.lr in a run

-----------------------------------------------------------------------------
(* Exact rational arithmetic for Python's numbers *)

RECURSIVE GCD(_, _)
GCD(a, b) == IF b = 0 THEN a ELSE GCD(b, a % b)

Abs(n) == IF n < 0 THEN -n ELSE n

Rat(n, d) ==
    LET g == GCD(Abs(n), Abs(d))
        s == IF d < 0 THEN -1 ELSE 1
    IN  <<(s * n) \div g, (s * d) \div g>>

R0 == <<0, 1>>
R1 == <<1, 1>>
RInt(n) == <<n, 1>>

RAdd(x, y) == Rat(x[1] * y[2] + y[1] * x[2], x[2] * y[2])
RNeg(x) == <<-x[1], x[2]>>
RSub(x, y) == RAdd(x, RNeg(y))
RMul(x, y) == Rat(x[1] * y[1], x[2] * y[2])
RDiv(x, y) == Rat(x[1] * y[2], x[2] * y[1])
RLt(x, y) == x[1] * y[2] < y[1] * x[2]
RLe(x, y) == x[1] * y[2] <= y[1] * x[2]
RIsInt(x) == x[2] = 1

RECURSIVE RPow(_, _)
RPow(x, k) == IF k = 0 THEN R1 ELSE RMul(x, RPow(x, k - 1))

RECURSIVE IPow(_, _)
IPow(n, k) == IF k = 0 THEN 1 ELSE n * IPow(n, k - 1)

\* the least k >= from with k^q >= n
RECURSIVE RootSearch(_, _, _)
RootSearch(n, q, from) ==
    IF IPow(from, q) >= n THEN from ELSE RootSearch(n, q, from + 1)

\* the q-th root of a natural number, when it is a natural number
IRoot(n, q) == RootSearch(n, q, 0)
HasIRoot(n, q) == IPow(IRoot(n, q), q) = n

\* the q-th root of a non-negative rational, when it is rational
HasRRoot(x, q) == x[1] >= 0 /\ HasIRoot(x[1], q) /\ HasIRoot(x[2], q)
RRoot(x, q) == <<IRoot(x[1], q), IRoot(x[2], q)>>

\* x ** (p / q) for ints p >= 0, q > 0: the exponent in lowest terms
RPowFrac(x, p, q) ==
    LET g == GCD(p, q) IN RPow(RRoot(x, q \div g), p \div g)
HasRPowFrac(x, p, q) == HasRRoot(x, q \div GCD(p, q))

\* int(x) of Python: truncation toward zero
PyInt(x) == IF x[1] >= 0 THEN x[1] \div x[2] ELSE -((-x[1]) \div x[2])

-----------------------------------------------------------------------------
(* Tensors: numpy arrays as [shape, data], and Python scalars as shape <<>> *)

RECURSIVE SeqProd(_)
SeqProd(s) == IF s = <<>> THEN 1 ELSE Head(s) * SeqProd(Tail(s))

Size(t) == Len(t.data)
Scalar(x) == [shape |-> <<>>, data |-> <<x>>]
Vec(d) == [shape |-> <<Len(d)>>, data |-> d]

\* np.ravel
Ravel(t) == Vec(t.data)

\* elementwise binary operation with a scalar broadcast against an array
Elementwise(Op(_, _), a, b) ==
    IF a.shape = <<>> /\ b.shape = <<>> THEN Scalar(Op(a.data[1], b.data[1]))
    ELSE IF a.shape = <<>>
         THEN [shape |-> b.shape, data |-> [i \in 1..Size(b) |-> Op(a.data[1], b.data[i])]]
    ELSE IF b.shape = <<>>
         THEN [shape |-> a.shape, data |-> [i \in 1..Size(a) |-> Op(a.data[i], b.data[1])]]
    ELSE [shape |-> a.shape, data |-> [i \in 1..Size(a) |-> Op(a.data[i], b.data[i])]]

Map1(Op(_), a) == [shape |-> a.shape, data |-> [i \in 1..Size(a) |-> Op(a.data[i])]]

TAdd(a, b) == Elementwise(RAdd, a, b)
TMul(a, b) == Elementwise(RMul, a, b)
TDiv(a, b) == Elementwise(RDiv, a, b)
TNeg(a) == Map1(RNeg, a)
RSquare(x) == RMul(x, x)
TSquare(a) == Map1(RSquare, a)
RSqrt(x) == RRoot(x, 2)
TSqrt(a) == Map1(RSqrt, a)
TScale(x, a) == TMul(Scalar(x), a)
TAllSquares(a) == \A i \in 1..Size(a) : HasRRoot(a.data[i], 2)
TNoZero(a) == \A i \in 1..Size(a) : a.data[i] # R0


-----------------------------------------------------------------------------
(* The network collaborator (core.nn.NeuralNet) *)

\* the return value of an operation that returns nothing
None == <<>>

\* the parameter shapes of the model: a 0-d array, vectors and matrices
Shapes == {<<>>, <<1>>, <<3>>, <<1, 2>>, <<2, 2>>}
Nets == UNION {[1..n -> Shapes] : n \in 0..MaxParams}

\* number of flat elements before parameter i in traversal order
RECURSIVE Offset(_, _)
Offset(shapes, i) ==
    IF i = 1 THEN 0 ELSE Offset(shapes, i - 1) + SeqProd(shapes[i - 1])

\* a tensor of the given shape whose k-th flat element is f(base + k)
Filled(shape, base, c) ==
    [shape |-> shape, data |-> [k \in 1..SeqProd(shape) |-> RInt(c * (base + k))]]

NetShapes == [i \in 1..Len(params) |-> params[i].shape]

\* NeuralNet.get_params_and_grads(): the (param, grad) pairs, in a fixed order
get_params_and_grads == [i \in 1..Len(params) |-> <<params[i], grads[i]>>]

\* the backward pass: every gradient is recomputed, shapes unchanged
GradScales == {1, -2}
Backward(c) ==
    /\ grads' = [i \in 1..Len(params) |->
                    Filled(params[i].shape, Offset(NetShapes, i), c)]
    /\ lastOp' = "backward"
    /\ err' = "none"
    /\ ret' = None
    /\ UNCHANGED <<params, optKind, lr, optStateVars, hyper, scheds, hist>>

-----------------------------------------------------------------------------
(* Optimizer and its variants *)

NoHyper == [beta1 |-> R0, beta2 |-> R0, eps |-> R0, decay |-> R0, momentum |-> R0]

\* Optimizer.__init__ with a fallback rate for a non-positive argument
OptimizerInitDefaulted(l) == lr' = IF RLt(R0, l) THEN l ELSE <<1, 1000>>

\* Optimizer.__init__
OptimizerInit(l) == lr' = l

SGDInit(l) ==
    /\ optKind = "none"
    /\ OptimizerInit(l)
    /\ optKind' = "SGD"
    /\ hyper' = NoHyper
    /\ lastOp' = "SGD"
    /\ err' = "none"
    /\ ret' = None
    /\ hist' = [hist EXCEPT !.lrArg = l]
    /\ UNCHANGED <<netVars, optStateVars, scheds>>

AdamInit(l, beta1, beta2, epsilon) ==
    /\ optKind = "none"
    /\ OptimizerInit(l)
    /\ optKind' = "Adam"
    /\ hyper' = [NoHyper EXCEPT !.beta1 = beta1, !.beta2 = beta2, !.eps = epsilon]
    /\ adam_t' = 0
    /\ adam_m' = Scalar(R0)
    /\ adam_v' = Scalar(R0)
    /\ lastOp' = "Adam"
    /\ err' = "none"
    /\ ret' = None
    /\ hist' = [hist EXCEPT !.lrArg = l]
    /\ UNCHANGED <<netVars, acc, rms_ms, rms_mom, scheds>>

RMSPropInit(l, decay, momentum, epsilon) ==
    /\ optKind = "none"
    /\ OptimizerInit(l)
    /\ optKind' = "RMSProp"
    /\ hyper' = [NoHyper EXCEPT !.decay = decay, !.momentum = momentum, !.eps = epsilon]
    /\ rms_ms' = Scalar(R0)
    /\ rms_mom' = Scalar(R0)
    /\ lastOp' = "RMSProp"
    /\ err' = "none"
    /\ ret' = None
    /\ hist' = [hist EXCEPT !.lrArg = l]
    /\ UNCHANGED <<netVars, acc, adam_t, adam_m, adam_v, scheds>>

MomentumInit(l, momentum) ==
    /\ optKind = "none"
    /\ OptimizerInit(l)
    /\ optKind' = "Momentum"
    /\ hyper' = [NoHyper EXCEPT !.momentum = momentum]
    /\ acc' = Scalar(R0)
    /\ lastOp' = "Momentum"
    /\ err' = "none"
    /\ ret' = None
    /\ hist' = [hist EXCEPT !.lrArg = l]
    /\ UNCHANGED <<netVars, adam_t, adam_m, adam_v, rms_ms, rms_mom, scheds>>

\* the optimizer's accumulator state, as one record
OptState == [acc |-> acc, adam_t |-> adam_t, adam_m |-> adam_m, adam_v |-> adam_v,
             rms_ms |-> rms_ms, rms_mom |-> rms_mom]

\* SGD._compute_step
SGD_compute_step(g) == [step |-> TMul(Scalar(RNeg(lr)), g), state |-> OptState]

\* the bias-corrected rate of Adam without the square root
Adam_lr_t_nosqrt(t) ==
    RDiv(RMul(lr, RSub(R1, RPow(hyper.beta2, t))),
         RSub(R1, RPow(hyper.beta1, t)))

\* Adam._compute_step
Adam_lr_t(t) ==
    RDiv(RMul(lr, RSqrt(RSub(R1, RPow(hyper.beta2, t)))),
         RSub(R1, RPow(hyper.beta1, t)))
Adam_m(g) ==
    TAdd(TScale(hyper.beta1, adam_m), TScale(RSub(R1, hyper.beta1), g))
Adam_v(g) ==
    TAdd(TScale(hyper.beta2, adam_v), TScale(RSub(R1, hyper.beta2), TSquare(g)))
Adam_compute_step(g) ==
    LET t == adam_t + 1
        lr_t == Adam_lr_t(t)
        m == Adam_m(g)
        v == Adam_v(g)
    IN  [step |-> TDiv(TMul(Scalar(RNeg(lr_t)), m),
                       TAdd(TSqrt(v), Scalar(hyper.eps))),
         state |-> [OptState EXCEPT !.adam_t = t, !.adam_m = m, !.adam_v = v]]

\* RMSProp._compute_step
RMSProp_ms(g) ==
    TAdd(TScale(hyper.decay, rms_ms), TScale(RSub(R1, hyper.decay), TSquare(g)))
RMSProp_compute_step(g) ==
    LET ms == RMSProp_ms(g)
        mom == TAdd(TScale(hyper.momentum, rms_mom),
                    TDiv(TScale(lr, g), TSqrt(TAdd(ms, Scalar(hyper.eps)))))
    IN  [step |-> TNeg(mom),
         state |-> [OptState EXCEPT !.rms_ms = ms, !.rms_mom = mom]]

\* Momentum._compute_step
Momentum_compute_step(g) ==
    LET a == TAdd(TScale(hyper.momentum, acc), g)
    IN  [step |-> TMul(Scalar(RNeg(lr)), a),
         state |-> [OptState EXCEPT !.acc = a]]

\* dispatch of self._compute_step(grad) on the optimizer's class
compute_step(g) ==
    CASE optKind = "SGD" -> SGD_compute_step(g)
      [] optKind = "Adam" -> Adam_compute_step(g)
      [] optKind = "RMSProp" -> RMSProp_compute_step(g)
      [] optKind = "Momentum" -> Momentum_compute_step(g)

\* every root and quotient _compute_step takes on g is an exact rational
StepIsExact(g) ==
    CASE optKind = "Adam" ->
            /\ HasRRoot(RSub(R1, RPow(hyper.beta2, adam_t + 1)), 2)
            /\ RPow(hyper.beta1, adam_t + 1) # R1
            /\ TAllSquares(Adam_v(g))
            /\ TNoZero(TAdd(TSqrt(Adam_v(g)), Scalar(hyper.eps)))
      [] optKind = "RMSProp" ->
            /\ TAllSquares(TAdd(RMSProp_ms(g), Scalar(hyper.eps)))
            /\ TNoZero(TAdd(RMSProp_ms(g), Scalar(hyper.eps)))
      [] OTHER -> TRUE


\* np.prod(shape): an int for a non-empty shape, the float 1.0 for the empty one
NpProd(shape) == [isFloat |-> shape = <<>>, val |-> SeqProd(shape)]

\* seq[lo:hi] of Python for 0 <= lo <= hi: the bounds are clamped to the length
PySlice(seq, lo, hi) ==
    LET h == IF hi > Len(seq) THEN Len(seq) ELSE hi
    IN  IF lo >= h THEN <<>> ELSE SubSeq(seq, lo + 1, h)

\* np.concatenate([np.ravel(grad) for param, grad in pairs])
RECURSIVE Flatten(_)
Flatten(pairs) ==
    IF pairs = <<>> THEN <<>>
    ELSE Ravel(Head(pairs)[2]).data \o Flatten(Tail(pairs))

\* the for loop of Optimizer.step from pair i on; st = [params, pointer, err]
RECURSIVE ApplyLoop(_, _, _, _)
ApplyLoop(pairs, step, i, st) ==
    IF i > Len(pairs) THEN st
    ELSE LET param == pairs[i][1]
             block == NpProd(param.shape)
             piece == PySlice(step.data, st.pointer, st.pointer + block.val)
         IN  IF block.isFloat
             THEN [st EXCEPT !.err = "TypeError"]      \* a float slice index
             ELSE IF Len(piece) # SeqProd(param.shape)
             THEN [st EXCEPT !.err = "ValueError"]     \* reshape of another size
             ELSE ApplyLoop(pairs, step, i + 1,
                    [params |-> [st.params EXCEPT
                                   ![i] = TAdd(param, [shape |-> param.shape,
                                                       data |-> piece])],
                     pointer |-> st.pointer + block.val,
                     err |-> "none"])

\* Optimizer.step(net)
OptimizerStep ==
    /\ optKind # "none"
    /\ hist.optSteps < MaxOptSteps
    /\ LET flat == Flatten(get_params_and_grads)
       IN  IF Len(get_params_and_grads) = 0
           THEN \* np.concatenate of an empty list
                /\ err' = "ValueError"
                /\ hist' = [hist EXCEPT !.optSteps = @ + 1]
                /\ UNCHANGED <<params, optStateVars>>
           ELSE /\ StepIsExact(Vec(flat))
                /\ LET cs == compute_step(Vec(flat))
                       out == ApplyLoop(get_params_and_grads, cs.step, 1,
                                [params |-> params, pointer |-> 0, err |-> "none"])
                   IN  /\ params' = out.params
                       /\ err' = out.err
                       /\ acc' = cs.state.acc
                       /\ adam_t' = cs.state.adam_t
                       /\ adam_m' = cs.state.adam_m
                       /\ adam_v' = cs.state.adam_v
                       /\ rms_ms' = cs.state.rms_ms
                       /\ rms_mom' = cs.state.rms_mom
                       /\ hist' = [hist EXCEPT !.optSteps = @ + 1,
                                               !.preParams = params,
                                               !.flatGrad = flat,
                                               !.flatStep = cs.step.data,
                                               !.pointer = out.pointer]
    /\ lastOp' = "opt_step"
    /\ ret' = None
    /\ UNCHANGED <<grads, optKind, lr, hyper, scheds>>


-----------------------------------------------------------------------------
(* LRScheduler and its variants *)

SchedIds == {1, 2}

\* an empty slot; a scheduler object carries the fields its class sets
NoSched ==
    [kind |-> "none", t |-> 0, initial_lr |-> R0, step_size |-> 0, gamma |-> R0,
     milestones |-> <<>>, decay_steps |-> 0, decay_rate |-> R0, lr_delta |-> R0,
     final_lr |-> R0, start_step |-> 0]

\* get_current_lr answering from the snapshot taken at construction
get_current_lr_cached == scheds[1].initial_lr

\* LRScheduler.get_current_lr
get_current_lr == lr

\* LRScheduler.__init__
LRSchedulerInit == [NoSched EXCEPT !.initial_lr = get_current_lr, !.t = 0]

\* bookkeeping of a constructor call on slot s that built obj or raised e
Constructed(s, name, args, obj, e) ==
    /\ scheds' = IF e = "none" THEN [scheds EXCEPT ![s] = obj] ELSE scheds
    /\ err' = e
    /\ lastOp' = name
    /\ ret' = None
    /\ hist' = IF e = "none"
               THEN [hist EXCEPT !.calls[s] = 0, !.clean[s] = TRUE,
                                 !.slot = s, !.args = args]
               ELSE [hist EXCEPT !.slot = s, !.args = args]
    /\ UNCHANGED <<netVars, optKind, lr, optStateVars, hyper>>

\* StepLR.__init__ with the assert weakened to step_size >= 0
StepLRInitLax(s, step_size, gamma) ==
    /\ optKind # "none"
    /\ scheds[s].kind = "none"
    /\ LET base == LRSchedulerInit
       IN  IF ~(step_size >= 0)
           THEN Constructed(s, "StepLR", <<step_size, gamma>>, base,
                            "AssertionError")
           ELSE Constructed(s, "StepLR",
                    <<step_size, gamma>>,
                    [base EXCEPT !.kind = "StepLR", !.step_size = step_size,
                                 !.gamma = gamma], "none")

\* StepLR.__init__
StepLRInit(s, step_size, gamma) ==
    /\ optKind # "none"
    /\ scheds[s].kind = "none"
    /\ LET base == LRSchedulerInit
       IN  IF ~(step_size >= 1)
           THEN Constructed(s, "StepLR", <<step_size, gamma>>, base,
                            "AssertionError")
           ELSE Constructed(s, "StepLR",
                    <<step_size, gamma>>,
                    [base EXCEPT !.kind = "StepLR", !.step_size = step_size,
                                 !.gamma = gamma], "none")

\* the assert of MultiStepLR.__init__ on the converted list
RECURSIVE StrictlyIncreasing(_)
StrictlyIncreasing(ms) ==
    \/ Len(ms) <= 1
    \/ (ms[1] < ms[2] /\ StrictlyIncreasing(Tail(ms)))

\* milestones = [int(m) for m in milestones]
ConvertMilestones(milestones) == [i \in 1..Len(milestones) |-> PyInt(milestones[i])]

\* isinstance(x, int) for every element of the converted list
AllInts(ms) == \A i \in 1..Len(ms) : ms[i] \in Int

MilestonesOk(milestones) ==
    LET ms == ConvertMilestones(milestones)
    IN  StrictlyIncreasing(ms) /\ AllInts(ms)

\* MultiStepLR.__init__
MultiStepLRInit(s, milestones, gamma) ==
    /\ optKind # "none"
    /\ scheds[s].kind = "none"
    /\ LET base == LRSchedulerInit
       IN  IF ~MilestonesOk(milestones)
           THEN Constructed(s, "MultiStepLR", <<milestones, gamma>>, base,
                            "AssertionError")
           ELSE Constructed(s, "MultiStepLR",
                    <<milestones, gamma>>,
                    [base EXCEPT !.kind = "MultiStepLR",
                                 !.milestones = ConvertMilestones(milestones),
                                 !.gamma = gamma], "none")

\* ExponentialLR.__init__
ExponentialLRInit(s, decay_steps, decay_rate) ==
    /\ optKind # "none"
    /\ scheds[s].kind = "none"
    /\ Constructed(s, "ExponentialLR", <<decay_steps, decay_rate>>,
            [LRSchedulerInit EXCEPT !.kind = "ExponentialLR",
                                    !.decay_steps = decay_steps,
                                    !.decay_rate = decay_rate], "none")

\* the asserts of LinearLR.__init__ with decay_steps = 0 let through
LinearArgsOkZero(initial_lr, decay_steps, final_lr) ==
    RLt(final_lr, initial_lr) /\ decay_steps >= 0

\* the asserts of LinearLR.__init__ with final_lr = initial_lr let through
LinearArgsOkLe(initial_lr, decay_steps, final_lr) ==
    RLe(final_lr, initial_lr) /\ decay_steps > 0

\* the two asserts of LinearLR.__init__
LinearArgsOk(initial_lr, decay_steps, final_lr) ==
    RLt(final_lr, initial_lr) /\ decay_steps > 0

\* LinearLR.__init__
LinearLRInit(s, decay_steps, final_lr, start_step) ==
    /\ optKind # "none"
    /\ scheds[s].kind = "none"
    /\ LET base == LRSchedulerInit
       IN  IF ~LinearArgsOk(base.initial_lr, decay_steps, final_lr)
           THEN Constructed(s, "LinearLR", <<decay_steps, final_lr, start_step>>,
                            base, "AssertionError")
           ELSE Constructed(s, "LinearLR",
                    <<decay_steps, final_lr, start_step>>,
                    [base EXCEPT !.kind = "LinearLR",
                                 !.lr_delta = RDiv(RSub(final_lr, base.initial_lr),
                                                   RInt(decay_steps)),
                                 !.final_lr = final_lr,
                                 !.decay_steps = decay_steps,
                                 !.start_step = start_step], "none")

\* StepLR._compute_lr deciding on the counter before its increment
StepLR_compute_lr_early(sch) ==
    LET decay == IF (sch.t - 1) % sch.step_size = 0 THEN sch.gamma ELSE R1
    IN  RMul(decay, lr)

\* StepLR._compute_lr scaling the snapshot of the rate instead of the current
\* rate
StepLR_compute_lr_absolute(sch) ==
    RMul(RPow(sch.gamma, sch.t \div sch.step_size), sch.initial_lr)

\* StepLR._compute_lr
StepLR_compute_lr(sch) ==
    LET decay == IF sch.t % sch.step_size = 0 THEN sch.gamma ELSE R1
    IN  RMul(decay, get_current_lr)

\* MultiStepLR._compute_lr decaying on every call from a milestone on
MultiStepLR_compute_lr_since(sch) ==
    LET decay == IF \E i \in 1..Len(sch.milestones) : sch.milestones[i] <= sch.t
                 THEN sch.gamma ELSE R1
    IN  RMul(decay, lr)

\* MultiStepLR._compute_lr
MultiStepLR_compute_lr(sch) ==
    LET decay == IF \E i \in 1..Len(sch.milestones) : sch.milestones[i] = sch.t
                 THEN sch.gamma ELSE R1
    IN  RMul(decay, get_current_lr)

\* ExponentialLR._compute_lr decaying the current rate instead of the snapshot
ExponentialLR_compute_lr_compound(sch) ==
    IF sch.t <= sch.decay_steps
    THEN RMul(lr, RPowFrac(sch.decay_rate, sch.t, sch.decay_steps))
    ELSE lr

\* ExponentialLR._compute_lr
ExponentialLR_compute_lr(sch) ==
    IF sch.t <= sch.decay_steps
    THEN RMul(sch.initial_lr, RPowFrac(sch.decay_rate, sch.t, sch.decay_steps))
    ELSE get_current_lr

\* LinearLR._compute_lr with the ramp starting one call early
LinearLR_compute_lr_early(sch) ==
    IF sch.t >= sch.start_step /\ sch.t <= sch.start_step + sch.decay_steps
    THEN RAdd(lr, sch.lr_delta)
    ELSE lr

\* LinearLR._compute_lr with the ramp running one call too long
LinearLR_compute_lr_late(sch) ==
    IF sch.t > sch.start_step /\ sch.t <= sch.start_step + sch.decay_steps + 1
    THEN RAdd(lr, sch.lr_delta)
    ELSE lr

\* LinearLR._compute_lr
LinearLR_compute_lr(sch) ==
    IF sch.t > sch.start_step /\ sch.t <= sch.start_step + sch.decay_steps
    THEN RAdd(get_current_lr, sch.lr_delta)
    ELSE get_current_lr

\* dispatch of self._compute_lr() on the scheduler's class
compute_lr(sch) ==
    CASE sch.kind = "StepLR" -> StepLR_compute_lr(sch)
      [] sch.kind = "MultiStepLR" -> MultiStepLR_compute_lr(sch)
      [] sch.kind = "ExponentialLR" -> ExponentialLR_compute_lr(sch)
      [] sch.kind = "LinearLR" -> LinearLR_compute_lr(sch)

\* the power _compute_lr takes, if any, is an exact rational
LrIsExact(sch) ==
    (sch.kind = "ExponentialLR" /\ sch.t <= sch.decay_steps)
        => HasRPowFrac(sch.decay_rate, sch.t, sch.decay_steps)

\* the counter incremented twice in one call
IncrementTwice(t) == t + 2

\* self._t += 1
Increment(t) == t + 1

\* self._compute_lr() raises ZeroDivisionError: t % 0 in StepLR, t / 0 in
\* ExponentialLR
compute_lr_raises(sch) ==
    CASE sch.kind = "StepLR" -> sch.step_size = 0
      [] sch.kind = "ExponentialLR" -> sch.t <= sch.decay_steps /\ sch.decay_steps = 0
      [] OTHER -> FALSE

\* LRScheduler.step taking a new snapshot of the rate on every call
SchedStepResnapshot(s) ==
    /\ scheds[s].kind # "none"
    /\ scheds[s].t < MaxT
    /\ LET sch == [scheds[s] EXCEPT !.t = Increment(@), !.initial_lr = lr]
       IN  /\ ~compute_lr_raises(sch)
           /\ LrIsExact(sch)
           /\ scheds' = [scheds EXCEPT ![s] = sch]
           /\ lr' = compute_lr(sch)
    /\ ret' = lr'
    /\ err' = "none"
    /\ lastOp' = "sched_step"
    /\ hist' = [hist EXCEPT !.calls[s] = @ + 1,
                            !.clean = [o \in SchedIds |-> @[o] /\ o = s],
                            !.slot = s]
    /\ UNCHANGED <<netVars, optKind, optStateVars, hyper>>

\* LRScheduler.step
SchedStep(s) ==
    /\ scheds[s].kind # "none"
    /\ scheds[s].t < MaxT
    /\ LET sch == [scheds[s] EXCEPT !.t = Increment(@)]
       IN  /\ scheds' = [scheds EXCEPT ![s] = sch]
           /\ IF compute_lr_raises(sch)
              THEN /\ lr' = lr
                   /\ ret' = None
                   /\ err' = "ZeroDivisionError"
              ELSE /\ LrIsExact(sch)
                   /\ lr' = compute_lr(sch)
                   /\ ret' = get_current_lr'
                   /\ err' = "none"
    /\ lastOp' = "sched_step"
    /\ hist' = [hist EXCEPT !.calls[s] = @ + 1,
                            !.clean = [o \in SchedIds |-> @[o] /\ o = s],
                            !.slot = s]
    /\ UNCHANGED <<netVars, optKind, optStateVars, hyper>>

\* scheduler.get_current_lr() called by the training loop
GetCurrentLr(s) ==
    /\ scheds[s].kind # "none"
    /\ ret' = get_current_lr
    /\ err' = "none"
    /\ lastOp' = "get_current_lr"
    /\ hist' = [hist EXCEPT !.slot = s]
    /\ UNCHANGED <<netVars, optKind, lr, optStateVars, hyper, scheds>>

\* optimizer.lr = v by the training loop
ExternalWrite(v) ==
    /\ optKind # "none"
    /\ hist.writes < MaxWrites
    /\ lr' = v
    /\ ret' = None
    /\ err' = "none"
    /\ lastOp' = "write_lr"
    /\ hist' = [hist EXCEPT !.writes = @ + 1,
                            !.clean = [o \in SchedIds |-> FALSE]]
    /\ UNCHANGED <<netVars, optKind, optStateVars, hyper, scheds>>


-----------------------------------------------------------------------------
(* Initial states and specifications *)

NoHist ==
    [optSteps |-> 0, writes |-> 0, preParams |-> <<>>, flatGrad |-> <<>>,
     flatStep |-> <<>>, pointer |-> 0, slot |-> 0, lrArg |-> None,
     args |-> <<>>,
     calls |-> [s \in SchedIds |-> 0], clean |-> [s \in SchedIds |-> FALSE]]

\* a network with the given parameter shapes, before any optimizer exists
InitNet(shapes) ==
    /\ params = [i \in 1..Len(shapes) |-> Filled(shapes[i], Offset(shapes, i), 0)]
    /\ grads = [i \in 1..Len(shapes) |-> Filled(shapes[i], Offset(shapes, i), 1)]
    /\ optKind = "none"
    /\ lr = R0
    /\ acc = Scalar(R0)
    /\ adam_t = 0
    /\ adam_m = Scalar(R0)
    /\ adam_v = Scalar(R0)
    /\ rms_ms = Scalar(R0)
    /\ rms_mom = Scalar(R0)
    /\ hyper = NoHyper
    /\ scheds = [s \in SchedIds |-> NoSched]
    /\ lastOp = "init"
    /\ err = "none"
    /\ ret = None
    /\ hist = NoHist

\* inputs of the optimizer specification
LrArgs == {<<1, 2>>, R0, <<-1, 1>>}
AdamArgs == {<<(<<1, 2>>), (<<3, 4>>), (<<1, 100>>)>>, <<(<<1, 2>>), R0, R0>>}
RMSPropArgs == {<<(<<3, 4>>), R0, R0>>, <<R0, (<<1, 2>>), R0>>}
MomentumArgs == {<<9, 10>>}

InitFlat == \E shapes \in Nets : InitNet(shapes)

NextFlat ==
    \/ \E l \in LrArgs : SGDInit(l)
    \/ \E l \in LrArgs, a \in AdamArgs : AdamInit(l, a[1], a[2], a[3])
    \/ \E l \in LrArgs, a \in RMSPropArgs : RMSPropInit(l, a[1], a[2], a[3])
    \/ \E l \in LrArgs, m \in MomentumArgs : MomentumInit(l, m)
    \/ \E c \in GradScales : Backward(c)
    \/ OptimizerStep

\* the optimizers over networks of every shape
SpecFlat == InitFlat /\ [][NextFlat]_vars

\* inputs of the scheduler specification
SchedLrArgs == {R1, <<3, 1>>}
StepSizes == {0, 1, 2, 3}
Gammas == {<<1, 2>>, <<1, 3>>}
MilestoneArgs ==
    {<<>>, <<RInt(3)>>, <<RInt(2), RInt(5)>>, <<RInt(5), RInt(3)>>,
     <<RInt(2), RInt(2)>>, <<(<<5, 2>>), RInt(5)>>, <<(<<5, 2>>), (<<27, 10>>)>>,
     <<RInt(-1), RInt(1), RInt(2)>>}
ExpDecaySteps == {-1, 0, 1, 2, 3}
ExpDecayRates == {<<1, 64>>}
LinDecaySteps == {-1, 0, 2, 3}
LinFinalLrs == {R0, <<1, 4>>, R1}
LinStartSteps == {-1, 0, 2}
WriteArgs == {<<2, 1>>, <<1, 3>>}

Init == InitNet(<< <<2>> >>)

Next ==
    \/ \E l \in SchedLrArgs : SGDInit(l)
    \/ \E n \in StepSizes, g \in Gammas : StepLRInit(1, n, g)
    \/ \E ms \in MilestoneArgs, g \in Gammas : MultiStepLRInit(1, ms, g)
    \/ \E n \in ExpDecaySteps, r \in ExpDecayRates : ExponentialLRInit(1, n, r)
    \/ \E n \in LinDecaySteps, f \in LinFinalLrs, b \in LinStartSteps :
            LinearLRInit(1, n, f, b)
    \/ SchedStep(1)
    \/ GetCurrentLr(1)
    \/ \E v \in WriteArgs : ExternalWrite(v)

\* one optimizer, one scheduler and the training loop's calls on the scheduler
Spec == Init /\ [][Next]_vars

\* inputs of the training-loop specification
LoopMilestones == {<<RInt(1), RInt(3)>>}

\* inputs of the specification with two schedulers on one optimizer
TwoStepSizes == {1, 2}
TwoMilestones == {<<RInt(1), RInt(3)>>, <<RInt(2)>>}

NextTwo ==
    \/ \E l \in SchedLrArgs : SGDInit(l)
    \/ \E s \in SchedIds, n \in TwoStepSizes, g \in Gammas : StepLRInit(s, n, g)
    \/ \E s \in SchedIds, ms \in TwoMilestones, g \in Gammas :
            MultiStepLRInit(s, ms, g)
    \/ \E s \in SchedIds : SchedStep(s)

\* one optimizer wrapped by two StepLR / MultiStepLR schedulers, stepped in
\* any order
SpecTwo == Init /\ [][NextTwo]_vars

NextLoop ==
    \/ SGDInit(R1)
    \/ MomentumInit(R1, <<1, 2>>)
    \/ AdamInit(R1, <<1, 2>>, R0, R0)
    \/ RMSPropInit(R1, R0, <<1, 2>>, R0)
    \/ StepLRInit(1, 2, <<1, 2>>)
    \/ \E ms \in LoopMilestones : MultiStepLRInit(1, ms, <<1, 2>>)
    \/ \E r \in ExpDecayRates : ExponentialLRInit(1, 2, r)
    \/ LinearLRInit(1, 2, R0, 1)
    \/ SchedStep(1)
    \/ GetCurrentLr(1)
    \/ ExternalWrite(<<2, 1>>)
    \/ OptimizerStep

\* the training loop: optimizer steps interleaved with the scheduler's
SpecLoop == Init /\ [][NextLoop]_vars

TypeOK ==
    /\ optKind \in {"none", "SGD", "Adam", "RMSProp", "Momentum"}
    /\ err \in {"none", "AssertionError", "TypeError", "ValueError",
               "ZeroDivisionError"}
    /\ \A s \in SchedIds : scheds[s].t \in 0..MaxT


-----------------------------------------------------------------------------
(* Optimizer.step: flatten and unflatten *)

OptKinds == {"SGD", "Adam", "RMSProp", "Momentum"}

\* parameter i after the step is parameter i before it plus the elements of the
\* flat update at the flat positions of gradient i, in its old shape
BlockApplied(i) ==
    LET off == Offset([j \in 1..Len(grads) |-> grads[j].shape], i)
        n == Size(grads[i])
    IN  /\ params[i].shape = hist.preParams[i].shape
        /\ off + n <= Len(hist.flatGrad)
        /\ SubSeq(hist.flatGrad, off + 1, off + n) = grads[i].data
        /\ off + n <= Len(hist.flatStep)
        /\ params[i].data =
             [k \in 1..n |-> RAdd(hist.preParams[i].data[k], hist.flatStep[off + k])]

RoundTrip ==
    /\ err = "none"
    /\ Len(hist.flatStep) = Len(hist.flatGrad)
    /\ hist.pointer = Len(hist.flatGrad)
    /\ \A i \in 1..Len(params) : BlockApplied(i)

\* C1: after Optimizer.step on a network of one or more parameters of any
\* shapes, every parameter has received exactly the elements of the flat update
\* at the flat positions of its own gradient, the blocks are contiguous and
\* cover the vector (the pointer ends at the total element count), and every
\* parameter keeps its shape.
C1_StepRoundTrip ==
    (lastOp = "opt_step" /\ Len(params) >= 1) => RoundTrip

\* The round trip of C1 on the networks whose parameters all have at least one
\* dimension: the networks on which np.prod(param.shape) is an int.
RankedRoundTrip ==
    (/\ lastOp = "opt_step"
     /\ Len(params) >= 1
     /\ \A i \in 1..Len(params) : params[i].shape # <<>>) => RoundTrip

RankedRoundTripWitness ==
    /\ lastOp = "opt_step"
    /\ Len(params) = 2
    /\ params[1].shape = <<2, 2>>
    /\ params[2].shape = <<3>>
    /\ hist.pointer = 7

-----------------------------------------------------------------------------
(* Construction of an optimizer *)

\* C7 as claimed: no optimizer instance with lr <= 0 exists after construction.
C7_NoNonPositiveLr == optKind # "none" => RLt(R0, lr)

\* C7 as amended: constructing an optimizer never fails and stores the given lr
\* as it is, also when lr <= 0.
C7_LrStoredUnvalidated ==
    lastOp \in OptKinds => (err = "none" /\ optKind = lastOp /\ lr = hist.lrArg)

C7_Witness == lastOp \in OptKinds /\ optKind = "Adam" /\ RLe(lr, R0)


-----------------------------------------------------------------------------
(* The schedules *)

\* the scheduler the last operation was called on
Last == scheds[hist.slot]

\* the last operation was a step() of a scheduler of class k
Stepped(k) == lastOp = "sched_step" /\ Last.kind = k

\* a step() call of a scheduler of class k is being taken
Stepping(k) == lastOp' = "sched_step" /\ scheds[hist'.slot].kind = k

\* C2: each StepLR step() multiplies the rate by gamma exactly when the
\* counter after the increment is a multiple of step_size, and leaves it as it
\* is otherwise; with no other write to optimizer.lr, after n calls the rate is
\* initial_lr * gamma^floor(n / step_size).
C2_StepLRCall ==
    Stepping("StepLR") =>
        LET sch == scheds'[hist'.slot]
        IN  lr' = IF \E k \in 1..MaxT : sch.t = k * sch.step_size
                  THEN RMul(sch.gamma, lr) ELSE lr

C2_StepLRClosed ==
    \A s \in SchedIds :
        (scheds[s].kind = "StepLR" /\ hist.clean[s]) =>
            lr = RMul(scheds[s].initial_lr,
                      RPow(scheds[s].gamma, hist.calls[s] \div scheds[s].step_size))

C2_StepLR == []C2_StepLRClosed /\ [][C2_StepLRCall]_vars

C2_Witness ==
    /\ Stepped("StepLR")
    /\ Last.step_size = 3
    /\ Last.gamma = <<1, 2>>
    /\ Last.initial_lr = R1
    /\ hist.clean[hist.slot]
    /\ hist.calls[hist.slot] = 6
    /\ lr = <<1, 4>>

\* the milestones m of a scheduler with 1 <= m <= n
Passed(sch, n) == {i \in 1..Len(sch.milestones) : sch.milestones[i] \in 1..n}

\* C3: each MultiStepLR step() multiplies the rate by gamma exactly when the
\* counter after the increment is one of the milestones, and leaves it as it is
\* otherwise; with no other write to optimizer.lr, after n calls the rate is
\* initial_lr * gamma^(number of milestones m with 1 <= m <= n).
C3_MultiStepCall ==
    Stepping("MultiStepLR") =>
        LET sch == scheds'[hist'.slot]
        IN  lr' = IF Passed(sch, sch.t) # Passed(sch, sch.t - 1)
                  THEN RMul(sch.gamma, lr) ELSE lr

C3_MultiStepClosed ==
    \A s \in SchedIds :
        (scheds[s].kind = "MultiStepLR" /\ hist.clean[s]) =>
            lr = RMul(scheds[s].initial_lr,
                      RPow(scheds[s].gamma,
                           Cardinality(Passed(scheds[s], hist.calls[s]))))

C3_MultiStepLR == []C3_MultiStepClosed /\ [][C3_MultiStepCall]_vars

C3_Witness ==
    /\ Stepped("MultiStepLR")
    /\ Last.milestones = <<2, 5>>
    /\ Last.gamma = <<1, 3>>
    /\ Last.initial_lr = R1
    /\ hist.clean[hist.slot]
    /\ hist.calls[hist.slot] = 6
    /\ lr = <<1, 9>>

\* C4: an ExponentialLR step() with t <= decay_steps writes
\* initial_lr * decay_rate^(t/decay_steps), whatever the optimizer's rate was:
\* the positive number y with y^decay_steps = decay_rate^t, times initial_lr;
\* at t = decay_steps that is initial_lr * decay_rate; a step() with
\* t > decay_steps leaves the rate as it was.
C4_ExpCall ==
    Stepping("ExponentialLR") =>
        LET sch == scheds'[hist'.slot]
            y == RDiv(lr', sch.initial_lr)
        IN  IF sch.t <= sch.decay_steps
            THEN /\ RLt(R0, y)
                 /\ RPow(y, sch.decay_steps) = RPow(sch.decay_rate, sch.t)
                 /\ sch.t = sch.decay_steps =>
                        lr' = RMul(sch.initial_lr, sch.decay_rate)
            ELSE lr' = lr

C4_ExponentialLR == [][C4_ExpCall]_vars

\* a rate written from outside was replaced by the point of the curve
C4_Witness ==
    /\ Stepped("ExponentialLR")
    /\ ~hist.clean[hist.slot]
    /\ hist.writes = 1
    /\ Last.decay_steps = 3
    /\ Last.t = 2
    /\ Last.initial_lr = <<3, 1>>
    /\ lr = <<3, 16>>


\* what every LinearLR step() does to the rate
C5_LinearCall ==
    Stepping("LinearLR") =>
        LET sch == scheds'[hist'.slot]
        IN  lr' = IF sch.t <= sch.start_step THEN lr
                  ELSE IF sch.t <= sch.start_step + sch.decay_steps
                  THEN RAdd(lr, RDiv(RSub(sch.final_lr, sch.initial_lr),
                                     RInt(sch.decay_steps)))
                  ELSE lr

\* the rate that n applications of the delta give
Ramp(sch, n) ==
    RAdd(sch.initial_lr,
         RDiv(RMul(RInt(n), RSub(sch.final_lr, sch.initial_lr)),
              RInt(sch.decay_steps)))

\* the calls among the first n that fall in the ramp
Applied(sch, n) ==
    Cardinality({k \in 1..n : k > sch.start_step
                              /\ k <= sch.start_step + sch.decay_steps})

\* with no other write, the rate after n calls is the ramp at the number of
\* calls that fell in it
LinearClosed(s) == lr = Ramp(scheds[s], Applied(scheds[s], hist.calls[s]))

\* the rate is final_lr at call start_step + decay_steps and after it
FinalReached(s) ==
    (hist.calls[s] >= 1
     /\ hist.calls[s] >= scheds[s].start_step + scheds[s].decay_steps)
        => (lr = scheds[s].final_lr
            /\ Applied(scheds[s], hist.calls[s]) = scheds[s].decay_steps)

-----------------------------------------------------------------------------
(* The scheduler's counter and its view of the rate *)

\* C6: a scheduler's counter is 0 after construction, each step() of that
\* scheduler adds exactly 1 to it, no other operation changes it, and after
\* any interleaving with n calls of its step() it equals n.
C6_CounterStep ==
    \A s \in SchedIds :
        IF scheds[s].kind = "none"
        THEN scheds'[s].kind # "none" => scheds'[s].t = 0
        ELSE IF lastOp' = "sched_step" /\ hist'.slot = s
        THEN scheds'[s].t = scheds[s].t + 1
        ELSE scheds'[s].t = scheds[s].t

C6_Counter ==
    /\ [](\A s \in SchedIds :
            scheds[s].kind # "none" => scheds[s].t = hist.calls[s])
    /\ [][C6_CounterStep]_vars

C6_Witness ==
    /\ lastOp = "opt_step"
    /\ hist.optSteps = 2
    /\ hist.writes = 1
    /\ scheds[1].kind = "LinearLR"
    /\ scheds[1].t = 4
    /\ hist.calls[1] = 4

\* C10: step() returns the rate it has just written into the optimizer, and
\* get_current_lr() returns optimizer.lr as it is now, after any interleaving
\* of scheduler steps and writes to optimizer.lr from outside.
C10_LiveRate ==
    /\ lastOp = "sched_step" => ret = lr
    /\ lastOp = "get_current_lr" => ret = lr

C10_Witness ==
    /\ lastOp = "get_current_lr"
    /\ Last.kind = "ExponentialLR"
    /\ ~hist.clean[hist.slot]
    /\ hist.calls[hist.slot] = 2
    /\ lr # Last.initial_lr
    /\ lr = <<1, 3>>
    /\ ret = <<1, 3>>

-----------------------------------------------------------------------------
(* Construction of a scheduler *)

\* a list of numbers is strictly increasing
StrictlyIncreasingNumbers(ms) ==
    \A i \in 1..Len(ms) : \A j \in 1..Len(ms) : i < j => RLt(ms[i], ms[j])

\* C8: MultiStepLR construction fails whenever the given milestones are not
\* strictly increasing or contain a non-integer value, and succeeds only for a
\* strictly increasing list of integers.
C8_MilestonesValidated ==
    lastOp = "MultiStepLR" =>
        LET given == hist.args[1]
        IN  err = "none" <=>
                /\ StrictlyIncreasingNumbers(given)
                /\ \A i \in 1..Len(given) : RIsInt(given[i])

\* C9 as claimed: ExponentialLR and LinearLR construction with
\* decay_steps <= 0 fails.
C9_DecayStepsValidated ==
    (lastOp \in {"ExponentialLR", "LinearLR"} /\ hist.args[1] <= 0)
        => err = "AssertionError"

\* C9 as amended: LinearLR construction with decay_steps <= 0 fails and leaves
\* no scheduler to call step() on; ExponentialLR construction does not look at
\* decay_steps and succeeds for every value of it.
C9_DecaySteps ==
    /\ (lastOp = "LinearLR" /\ hist.args[1] <= 0) =>
            (err = "AssertionError" /\ Last.kind = "none")
    /\ lastOp = "ExponentialLR" =>
            (err = "none" /\ Last.kind = "ExponentialLR"
                          /\ Last.decay_steps = hist.args[1])

C9_Witness ==
    /\ lastOp = "LinearLR"
    /\ hist.args[1] = 0
    /\ RLt(hist.args[2], lr)
    /\ err = "AssertionError"


-----------------------------------------------------------------------------
(* What a step leaves alone *)

\* C11: a scheduler's step() changes nothing but optimizer.lr and that
\* scheduler's counter: the parameters, the gradients, the optimizer's
\* accumulators and every scheduler's initial_lr stay as they were; and
\* Optimizer.step changes neither optimizer.lr nor any field of a scheduler.
C11_FrameStep ==
    /\ lastOp' = "sched_step" =>
          /\ UNCHANGED <<params, grads, optKind, hyper>>
          /\ UNCHANGED <<acc, adam_t, adam_m, adam_v, rms_ms, rms_mom>>
          /\ \A o \in SchedIds :
                scheds'[o] = IF o = hist'.slot
                             THEN [scheds[o] EXCEPT !.t = scheds'[o].t]
                             ELSE scheds[o]
    /\ lastOp' = "opt_step" => (lr' = lr /\ scheds' = scheds)

C11_Frame == [][C11_FrameStep]_vars

\* a scheduler stepped after Adam had built up its moments
C11_Witness ==
    /\ lastOp = "sched_step"
    /\ optKind = "Adam"
    /\ adam_t = 2
    /\ adam_m.shape = <<2>>
    /\ Last.kind = "ExponentialLR"
    /\ Last.t = 2
    /\ lr # Last.initial_lr


-----------------------------------------------------------------------------
(* The update rules of SGD and Momentum *)

\* no parameter of the network is a 0-d array
Ranked == \A i \in 1..Len(params) : params[i].shape # <<>>

\* the flat position of element k of parameter i
FlatPos(i, k) == Offset([j \in 1..Len(grads) |-> grads[j].shape], i) + k

\* every parameter moved by -rate * d, d a flat vector laid out like the gradient
MovedBy(rate, d) ==
    /\ err = "none"
    /\ \A i \in 1..Len(params) :
          /\ Size(params[i]) = Size(grads[i])
          /\ \A k \in 1..Size(grads[i]) :
                /\ FlatPos(i, k) <= Len(d)
                /\ params[i].data[k] =
                      RSub(hist.preParams[i].data[k], RMul(rate, d[FlatPos(i, k)]))

\* C12: an SGD step changes each parameter by exactly -lr * g of its own
\* gradient, whatever steps came before and with the lr in force at the call.
C12_SGDDelta ==
    (lastOp = "opt_step" /\ optKind = "SGD" /\ Len(params) >= 1)
        => MovedBy(lr, hist.flatGrad)

\* the rule of C12 on networks without a 0-d parameter
RankedSGDDelta ==
    (lastOp = "opt_step" /\ optKind = "SGD" /\ Len(params) >= 1 /\ Ranked)
        => (MovedBy(lr, hist.flatGrad)
            /\ \A i \in 1..Len(params) : \A k \in 1..Size(grads[i]) :
                  hist.flatGrad[FlatPos(i, k)] = grads[i].data[k])

\* a second SGD step after a scheduler had changed the rate
RankedSGDDeltaWitness ==
    /\ lastOp = "opt_step"
    /\ optKind = "SGD"
    /\ hist.optSteps = 2
    /\ hist.calls[1] >= 1
    /\ lr = <<1, 2>>
    /\ params[1].data = <<(<<-3, 2>>), (<<-3, 1>>)>>

\* 1 + x + ... + x^(n-1)
RECURSIVE GeoSum(_, _)
GeoSum(x, n) == IF n = 0 THEN R0 ELSE RAdd(R1, RMul(x, GeoSum(x, n - 1)))

\* C13: the accumulator of Momentum starts at 0, each step sets
\* acc = momentum * acc + g and moves the parameters by -lr * acc; with a
\* constant gradient g the accumulator after n steps is
\* g * (1 + momentum + ... + momentum^(n-1)).
C13_Momentum ==
    optKind = "Momentum" =>
        /\ hist.optSteps = 0 => acc = Scalar(R0)
        /\ (lastOp = "opt_step" /\ Len(params) >= 1) =>
              /\ acc.shape = <<Len(hist.flatGrad)>>
              /\ MovedBy(lr, acc.data)

\* the rule of C13 on the network of the training loop, whose gradient is
\* the same at every step and whose parameter is a vector
RankedMomentum ==
    (optKind = "Momentum" /\ Ranked) =>
        /\ hist.optSteps = 0 => acc = Scalar(R0)
        /\ hist.optSteps >= 1 =>
              acc = TScale(GeoSum(hyper.momentum, hist.optSteps),
                           Vec(Flatten(get_params_and_grads)))
        /\ lastOp = "opt_step" => MovedBy(lr, acc.data)

RankedMomentumWitness ==
    /\ lastOp = "opt_step"
    /\ optKind = "Momentum"
    /\ hist.optSteps = 2
    /\ acc.data = <<(<<3, 2>>), (<<3, 1>>)>>


-----------------------------------------------------------------------------
(* Rejected scheduler arguments *)

SchedCtors == {"StepLR", "MultiStepLR", "ExponentialLR", "LinearLR"}

C14_Rejected ==
    /\ (lastOp = "StepLR" /\ hist.args[1] < 1) =>
            (err = "AssertionError" /\ Last.kind = "none")
    /\ (lastOp = "LinearLR" /\ RLe(lr, hist.args[2])) =>
            (err = "AssertionError" /\ Last.kind = "none")

C14_FailedCtorStep ==
    (lastOp' \in SchedCtors /\ err' # "none") => (lr' = lr /\ scheds' = scheds)

-----------------------------------------------------------------------------
(* Adam *)

\* the state of a fresh Adam after its first step on the flat gradient g, and
\* the update it returned: m = (1 - beta1) g, v = (1 - beta2) g^2 and
\* step = -rate * m / (sqrt(v) + eps) with rate = lr sqrt(1 - beta2)/(1 - beta1)
AdamFirstStep ==
    LET g == hist.flatGrad
        rate == RDiv(RMul(lr, RSqrt(RSub(R1, hyper.beta2))), RSub(R1, hyper.beta1))
    IN  /\ adam_m.shape = <<Len(g)>>
        /\ adam_v.shape = <<Len(g)>>
        /\ Len(hist.flatStep) = Len(g)
        /\ \A k \in 1..Len(g) :
              /\ adam_m.data[k] = RMul(RSub(R1, hyper.beta1), g[k])
              /\ adam_v.data[k] = RMul(RSub(R1, hyper.beta2), RMul(g[k], g[k]))
              /\ RMul(hist.flatStep[k], RAdd(RSqrt(adam_v.data[k]), hyper.eps))
                    = RNeg(RMul(rate, adam_m.data[k]))

C15_AdamState ==
    (optKind = "Adam" /\ Len(params) >= 1) =>
        /\ adam_t = hist.optSteps
        /\ adam_t = 0 => (adam_m = Scalar(R0) /\ adam_v = Scalar(R0))
        /\ adam_t = 1 => AdamFirstStep

C15_AdamCount ==
    (optKind = "Adam" /\ Len(params) >= 1) =>
        adam_t' = IF lastOp' = "opt_step" THEN adam_t + 1 ELSE adam_t

\* C15: Adam's step count starts at 0 and every step of a network with
\* parameters adds exactly 1 to it; after the first step of a fresh Adam on
\* gradient g, t = 1, m = (1 - beta1) g, v = (1 - beta2) g^2 and the
\* bias-corrected rate used is lr sqrt(1 - beta2) / (1 - beta1).
C15_Adam == []C15_AdamState /\ [][C15_AdamCount]_vars

C15_Witness ==
    /\ lastOp = "opt_step"
    /\ optKind = "Adam"
    /\ adam_t = 1
    /\ hyper.beta1 = <<1, 2>>
    /\ hyper.beta2 = <<3, 4>>
    /\ lr = <<1, 2>>
    /\ Len(params) = 2
    /\ Len(hist.flatGrad) = 5
    /\ adam_v.data[5] = <<25, 4>>


-----------------------------------------------------------------------------
(* step() of a constructed scheduler *)

\* C16: once a scheduler of any variant is constructed, no step() call on it
\* fails: the step just made raised nothing, and the next step of every
\* constructed scheduler divides by no zero (StepLR has step_size >= 1, an
\* ExponentialLR with decay_steps = 0 never enters its decaying branch).
C16_StepNeverFails ==
    /\ lastOp = "sched_step" => err = "none"
    /\ \A s \in SchedIds :
          scheds[s].kind # "none" =>
              ~compute_lr_raises([scheds[s] EXCEPT !.t = Increment(@)])

C16_Witness ==
    /\ lastOp = "sched_step"
    /\ err = "none"
    /\ \E s \in SchedIds :
          /\ scheds[s].kind = "ExponentialLR"
          /\ scheds[s].decay_steps = 0
          /\ scheds[s].t = 2
          /\ hist.calls[s] = 2
          /\ ret = lr


-----------------------------------------------------------------------------
(* Bounds of LinearLR *)

\* scheduler s is a LinearLR and only its own step() has written the rate
\* since it was constructed
SoleLinear(s) == scheds[s].kind = "LinearLR" /\ hist.clean[s]

C17_Bounded ==
    \A s \in SchedIds :
        SoleLinear(s) =>
            /\ RLe(scheds[s].final_lr, lr)
            /\ RLe(lr, scheds[s].initial_lr)

C17_NonIncreasing ==
    \A s \in SchedIds :
        (SoleLinear(s) /\ SoleLinear(s)' /\ lastOp' = "sched_step") =>
            RLe(lr', lr)

-----------------------------------------------------------------------------
(* Two multiplicative schedulers on one optimizer *)

\* the number of decays a scheduler has applied in its first n calls
Decays(sch, n) ==
    IF sch.kind = "StepLR"
    THEN n \div sch.step_size
    ELSE Cardinality({m \in 1..n :
            \E i \in 1..Len(sch.milestones) : sch.milestones[i] = m})

\* the gamma factors scheduler s has accumulated over its own calls
Factor(s) ==
    IF scheds[s].kind = "none"
    THEN R1
    ELSE RPow(scheds[s].gamma, Decays(scheds[s], hist.calls[s]))

=============================================================================
